---- MODULE Spec2Model ----
(***************************************************************************)
(* Model of rust_optimizer (src/rust_optimizer/src/main.rs): the cache     *)
(* warm-up pipeline.  main checks the cache root, builds the worker pool,  *)
(* scans the directory, spawns the aggregator thread behind a bounded      *)
(* channel, runs process_file over every path in batches on the workers,   *)
(* drops the sender and joins the aggregator, which sorts and prints.      *)
(*                                                                         *)
(* Paths are the integers 1..n in the order files.sort() gives them.  The  *)
(* file system is the environment: every system call draws its result at   *)
(* the time of the call, and the result is remembered in fs so that a      *)
(* later call on the same path agrees with it.  ops is the instrumentation *)
(* of the system calls made per path.  Elapsed times and the progress bars *)
(* are not modelled.                                                       *)
(***************************************************************************)
EXTENDS Integers, Sequences, FiniteSets, TLC

\* ---- bounds of the model -------------------------------------------------
MaxFiles == 3      \* at most this many regular files under the cache root
MaxSize == 1       \* file sizes are 0..MaxSize
MaxWorkers == 2    \* --jobs / physical cores: 1..MaxWorkers
MaxFaults == 1     \* at most this many files with an injected fault per run
Threshold == 1     \* --min-bytes is 0 (the default) or Threshold
\* scaled-down stand-ins for the literals of the source
ChunkSize == 2     \* par_chunks(128), line 409
ChanCap == 1       \* bounded(1024), line 341
TopN == 2          \* take(10), line 390
LargestCap == 2    \* 256, lines 369-372
ClampLo == 2       \* clamp(64, ..), line 61
ClampHi == 3       \* clamp(.., 4096), line 61
U32Bits == 3       \* the 32 bits of u32 / uint, lines 29-33 and 110
U64Bits == 3       \* the 64 bits of AtomicU64, lines 344-345
\* the byte buffers handed to xor64_for_file
MaxBytes == 66
MaxSeed == 2
\* the reports handed to the aggregator in SpecAgg
MaxFeed == 4

WordBytes == 8     \* bytes of a u64, lines 69-80

Paths == 1..MaxFiles
WorkerIds == 1..MaxWorkers
Sizes == 0..MaxSize

\* What the file system answers for one path.  fault: "none"; "stat" (every
\* metadata() on the path fails); "open" (File::open fails); "map" (mmap
\* fails); "gpu" (xor64_for_file returns Err).
FaultKinds == {"none", "stat", "open", "map", "gpu"}
Unseen == [size |-> 0, fault |-> "unseen"]

VARIABLES
    args,          \* Args: [min_bytes, gpu]
    rootExists,    \* environment: args.cache.exists()
    mainPc,        \* position of the main thread
    num_workers,   \* threads of the rayon pool (0 before it is built)
    files,         \* Vec<PathBuf> after the scan, sorted
    gpu_ctx,       \* "Unset" | "None" | "Some"
    chan,          \* the bounded channel's queue
    txAlive,       \* the sender handle (tx_arc) is not dropped yet
    rxAlive,       \* the receiver is alive (owned by the aggregator thread)
    taken,         \* batches already handed to a worker
    worker,        \* per worker: [pc, chunk, pos, rep, err]
    aggPc,         \* state of the aggregator thread
    reports,       \* aggregator: Vec<FileReport>
    largest,       \* aggregator: Vec<(u64, PathBuf)>
    total_processed,
    total_bytes_processed,
    printed,       \* the summary on stdout: <<>> or <<[processed, total_bytes, top]>>
    stderr,        \* warnings written per path
    lost,          \* reports whose send returned Err (the result is ignored)
    fs,            \* what the file system answered per path
    ops,           \* system calls made per path
    xorRun         \* one call of GpuContext::xor64_for_file, step by step

vars == <<args, rootExists, mainPc, num_workers, files, gpu_ctx, chan, txAlive,
          rxAlive, taken, worker, aggPc, reports, largest, total_processed,
          total_bytes_processed, printed, stderr, lost, fs, ops, xorRun>>

mainVars == <<mainPc, num_workers, files, gpu_ctx, txAlive>>
aggVars == <<aggPc, reports, largest, total_processed, total_bytes_processed,
             printed, rxAlive>>
envVars == <<args, rootExists, xorRun>>

\* ---- data ----------------------------------------------------------------
FileReport(p, s, fp, g) ==
    [path |-> p, size |-> s, blake3_hex |-> fp, xor64_gpu |-> g]

Min(a, b) == IF a < b THEN a ELSE b

IdleWorker == [pc |-> "idle", chunk |-> 0, pos |-> 0, rep |-> <<>>, err |-> FALSE]

\* Faulty variant of NumChunks: chunks_exact, the shorter last batch is left
\* out.
NumChunksExact(n) == n \div ChunkSize

\* files.par_chunks(ChunkSize): batch c holds the positions ChunkFirst..ChunkLast
NumChunks(n) == (n + ChunkSize - 1) \div ChunkSize
ChunkFirst(c) == (c - 1) * ChunkSize + 1
ChunkLast(c, n) == Min(c * ChunkSize, n)

\* ---- process_file ----------------------------------------------------------
\* f is the file system's answer for the path.  The result is
\* [ok, report, ops]: Ok(report) or Err, and the calls made on the way.
GpuValue(f, use_gpu, ctx) ==
    IF use_gpu /\ ctx = "Some" /\ f.fault # "gpu" THEN "Some" ELSE "None"

\* Faulty variant of process_file: the file is opened and mapped before its
\* size is compared with the threshold.
process_file_OpenFirst(p, f, min_bytes, use_gpu, ctx) ==
    IF f.fault = "stat"
    THEN [ok |-> FALSE, report |-> <<>>, ops |-> {"stat"}]
    ELSE IF f.fault = "open"
    THEN [ok |-> FALSE, report |-> <<>>, ops |-> {"stat", "open"}]
    ELSE IF f.fault = "map"
    THEN [ok |-> FALSE, report |-> <<>>, ops |-> {"stat", "open", "map"}]
    ELSE IF f.size < min_bytes
    THEN [ok |-> TRUE,
          report |-> <<FileReport(p, f.size, "None", "None")>>,
          ops |-> {"stat", "open", "map"}]
    ELSE [ok |-> TRUE,
          report |-> <<FileReport(p, f.size, "Some", GpuValue(f, use_gpu, ctx))>>,
          ops |-> {"stat", "open", "map", "advise", "hash"}
                  \cup (IF use_gpu /\ ctx = "Some" THEN {"gpu"} ELSE {})]

\* Faulty variant of process_file: `size <= min_bytes` in place of
\* `size < min_bytes`.
process_file_Le(p, f, min_bytes, use_gpu, ctx) ==
    IF f.fault = "stat"
    THEN [ok |-> FALSE, report |-> <<>>, ops |-> {"stat"}]
    ELSE IF f.size <= min_bytes
    THEN [ok |-> TRUE,
          report |-> <<FileReport(p, f.size, "None", "None")>>,
          ops |-> {"stat"}]
    ELSE IF f.fault = "open"
    THEN [ok |-> FALSE, report |-> <<>>, ops |-> {"stat", "open"}]
    ELSE IF f.fault = "map"
    THEN [ok |-> FALSE, report |-> <<>>, ops |-> {"stat", "open", "map"}]
    ELSE [ok |-> TRUE,
          report |-> <<FileReport(p, f.size, "Some", GpuValue(f, use_gpu, ctx))>>,
          ops |-> {"stat", "open", "map", "advise", "hash"}
                  \cup (IF use_gpu /\ ctx = "Some" THEN {"gpu"} ELSE {})]

\* Faulty variant of process_file: the GPU call's error is propagated with `?`
\* in place of being turned into None.
process_file_GpuPropagates(p, f, min_bytes, use_gpu, ctx) ==
    IF f.fault = "stat"
    THEN [ok |-> FALSE, report |-> <<>>, ops |-> {"stat"}]
    ELSE IF f.size < min_bytes
    THEN [ok |-> TRUE,
          report |-> <<FileReport(p, f.size, "None", "None")>>,
          ops |-> {"stat"}]
    ELSE IF f.fault = "open"
    THEN [ok |-> FALSE, report |-> <<>>, ops |-> {"stat", "open"}]
    ELSE IF f.fault = "map"
    THEN [ok |-> FALSE, report |-> <<>>, ops |-> {"stat", "open", "map"}]
    ELSE IF f.fault = "gpu"
    THEN [ok |-> FALSE, report |-> <<>>,
          ops |-> {"stat", "open", "map", "advise", "hash", "gpu"}]
    ELSE [ok |-> TRUE,
          report |-> <<FileReport(p, f.size, "Some", GpuValue(f, use_gpu, ctx))>>,
          ops |-> {"stat", "open", "map", "advise", "hash"}
                  \cup (IF use_gpu /\ ctx = "Some" THEN {"gpu"} ELSE {})]

process_file(p, f, min_bytes, use_gpu, ctx) ==
    IF f.fault = "stat"
    THEN [ok |-> FALSE, report |-> <<>>, ops |-> {"stat"}]
    ELSE IF f.size < min_bytes
    THEN [ok |-> TRUE,
          report |-> <<FileReport(p, f.size, "None", "None")>>,
          ops |-> {"stat"}]
    ELSE IF f.fault = "open"
    THEN [ok |-> FALSE, report |-> <<>>, ops |-> {"stat", "open"}]
    ELSE IF f.fault = "map"
    THEN [ok |-> FALSE, report |-> <<>>, ops |-> {"stat", "open", "map"}]
    ELSE [ok |-> TRUE,
          report |-> <<FileReport(p, f.size, "Some", GpuValue(f, use_gpu, ctx))>>,
          ops |-> {"stat", "open", "map", "advise", "hash"}
                  \cup (IF use_gpu /\ ctx = "Some" THEN {"gpu"} ELSE {})]

\* p.metadata().map(|m| m.len()).unwrap_or(0) of the Err arm
Restat(f) == IF f.fault = "stat" THEN 0 ELSE f.size

err_report(p, f) == FileReport(p, Restat(f), "None", "None")

\* The answers the file system can give for the calls process_file makes:
\* a call that is not made has no answer.
Observable(f, min_bytes, use_gpu, ctx) ==
    /\ f.fault = "stat" => f.size = 0
    /\ f.fault \in {"open", "map"} => f.size >= min_bytes
    /\ f.fault = "gpu" => f.size >= min_bytes /\ use_gpu /\ ctx = "Some"

Faulty == {p \in Paths : fs[p].fault \notin {"none", "unseen"}}

\* ---- gpu::GpuContext::xor64_for_file, lines 28-39 and 67-130 -----------------
\* A u64 is the set of the positions (0..63) of its one-bits, so that XOR is
\* the symmetric difference.
BitsOfByte(b) == {j \in 0..7 : (b \div (2 ^ j)) % 2 = 1}

\* u64::from_le_bytes: byte k (from 1) holds the bits 8(k-1) .. 8(k-1)+7
from_le_bytes(chunk) ==
    UNION {{WordBytes * (k - 1) + j : j \in BitsOfByte(chunk[k])} : k \in 1..WordBytes}

Xor(a, b) == (a \ b) \cup (b \ a)

\* lines 69-72
LenU64(bytes) ==
    Len(bytes) \div WordBytes + (IF Len(bytes) % WordBytes # 0 THEN 1 ELSE 0)

\* lines 76-85: the loop `for i in 0..len_u64` over the rest rdr of the bytes
RECURSIVE FillWords(_, _, _, _)
FillWords(u64buf, rdr, i, len_u64) ==
    IF i >= len_u64 THEN u64buf
    ELSE LET take == Min(WordBytes, Len(rdr))
             chunk == [k \in 1..WordBytes |-> IF k <= take THEN rdr[k] ELSE 0]
             filled == [u64buf EXCEPT ![i + 1] = from_le_bytes(chunk)]
         IN  IF Len(rdr) <= take THEN filled
             ELSE FillWords(filled, SubSeq(rdr, take + 1, Len(rdr)), i + 1, len_u64)

PackWords(bytes) ==
    FillWords([i \in 1..LenU64(bytes) |-> {}], bytes, 0, LenU64(bytes))

\* `n as u32` (line 110) and the kernel's `uint`: U32Bits bits wide
AsU32(x) == x % (2 ^ U32Bits)

\* lines 33-35: for (uint i = gid; i < n; i += get_global_size(0)) acc ^= data[i];
\* <<acc>> when the loop ends; <<>> when it comes back to an index it has
\* already visited and so never ends
RECURSIVE LaneLoop(_, _, _, _, _, _)
LaneLoop(data, n, gsz, i, acc, visited) ==
    IF ~(i < n) THEN <<acc>>
    ELSE IF i \in visited THEN <<>>
    ELSE LaneLoop(data, n, gsz, AsU32(i + gsz), Xor(acc, data[i + 1]),
                  visited \cup {i})

\* lines 29-38: the work-item gid of xor_reduce; its out[gid]
xor_reduce(data, n, gsz, gid) == LaneLoop(data, n, gsz, AsU32(gid), {}, {})

\* lines 104-124: enqueue the kernel over wg work-items, read the partials
RunKernel(u64buf, wg) ==
    [gid \in 0..(wg - 1) |-> xor_reduce(u64buf, AsU32(Len(u64buf)), wg, gid)]

\* lines 125-128
RECURSIVE HostReduce(_, _)
HostReduce(partials, k) ==
    IF k = 0 THEN {} ELSE Xor(HostReduce(partials, k - 1), partials[k - 1][1])

\* lines 88-89
WorkItems(max_work_items, n) == Min(max_work_items, n)

\* the whole call: Ok(value), Err (a buffer of length 0 cannot be created:
\* clCreateBuffer answers CL_INVALID_BUFFER_SIZE), or Hang (a work-item
\* never ends)
xor64_for_file(bytes, max_work_items) ==
    LET u64buf == PackWords(bytes)
        wg == WorkItems(max_work_items, Len(u64buf))
        partials == RunKernel(u64buf, wg)
    IN  IF Len(u64buf) = 0 THEN [tag |-> "Err", value |-> {}]
        ELSE IF \E gid \in 0..(wg - 1) : partials[gid] = <<>>
        THEN [tag |-> "Hang", value |-> {}]
        ELSE [tag |-> "Ok", value |-> HostReduce(partials, wg)]

\* the byte buffers the check runs on: every length up to MaxBytes, filled
\* from a seed
GenByte(seed, i) == (seed * 37 + i * i * 11 + i * 7 + (i \div 3) * (seed + 1)) % 256

Buffers ==
    {[i \in 1..len |-> GenByte(seed, i)] : len \in 0..MaxBytes, seed \in 0..MaxSeed}

XorIdle == [pc |-> "off", bytes |-> <<>>, max_work_items |-> 0, u64buf |-> <<>>,
            partials |-> <<>>, out |-> [tag |-> "None", value |-> {}]]

\* ---- initial state ----------------------------------------------------------
Init ==
    /\ args \in [min_bytes : {0, Threshold}, gpu : BOOLEAN]
    /\ rootExists \in BOOLEAN
    /\ mainPc = "start"
    /\ num_workers = 0
    /\ files = <<>>
    /\ gpu_ctx = "Unset"
    /\ chan = <<>>
    /\ txAlive = FALSE
    /\ rxAlive = FALSE
    /\ taken = {}
    /\ worker = [w \in WorkerIds |-> IdleWorker]
    /\ aggPc = "NotStarted"
    /\ reports = <<>>
    /\ largest = <<>>
    /\ total_processed = 0
    /\ total_bytes_processed = 0
    /\ printed = <<>>
    /\ stderr = [p \in Paths |-> 0]
    /\ lost = 0
    /\ fs = [p \in Paths |-> Unseen]
    /\ ops = [p \in Paths |-> {}]
    /\ xorRun = XorIdle

\* ---- main thread, setup -----------------------------------------------------
\* Faulty variant of CheckRoot: the missing root is not fatal.
CheckRootNoBail ==
    /\ mainPc = "start"
    /\ mainPc' = "pool"
    /\ UNCHANGED <<xorRun, args, rootExists, num_workers, files, gpu_ctx, chan, txAlive,
                   rxAlive, taken, worker, aggPc, reports, largest,
                   total_processed, total_bytes_processed, printed, stderr,
                   lost, fs, ops>>

\* lines 264-266
CheckRoot ==
    /\ mainPc = "start"
    /\ mainPc' = IF rootExists THEN "pool" ELSE "fatal"
    /\ UNCHANGED <<xorRun, args, rootExists, num_workers, files, gpu_ctx, chan, txAlive,
                   rxAlive, taken, worker, aggPc, reports, largest,
                   total_processed, total_bytes_processed, printed, stderr,
                   lost, fs, ops>>

\* lines 269-275: build_global() fails (n = 0 here), or the pool has one thread
\* or MaxWorkers threads
BuildPool ==
    /\ mainPc = "pool"
    /\ \E n \in {0, 1, MaxWorkers} :
          IF n = 0
          THEN mainPc' = "fatal" /\ UNCHANGED num_workers
          ELSE mainPc' = "scan" /\ num_workers' = n
    /\ UNCHANGED <<xorRun, args, rootExists, files, gpu_ctx, chan, txAlive, rxAlive,
                   taken, worker, aggPc, reports, largest, total_processed,
                   total_bytes_processed, printed, stderr, lost, fs, ops>>

\* lines 283-292: WalkDir, keep regular files, sort
Scan ==
    /\ mainPc = "scan"
    /\ \E n \in 0..MaxFiles : files' = [i \in 1..n |-> i]
    /\ mainPc' = "gpuinit"
    /\ UNCHANGED <<xorRun, args, rootExists, num_workers, gpu_ctx, chan, txAlive,
                   rxAlive, taken, worker, aggPc, reports, largest,
                   total_processed, total_bytes_processed, printed, stderr,
                   lost, fs, ops>>

\* lines 305-319: GpuContext::try_new() only when --gpu; failure is not fatal
GpuInit ==
    /\ mainPc = "gpuinit"
    /\ IF args.gpu THEN gpu_ctx' \in {"Some", "None"} ELSE gpu_ctx' = "None"
    /\ mainPc' = "spawn"
    /\ UNCHANGED <<xorRun, args, rootExists, num_workers, files, chan, txAlive, rxAlive,
                   taken, worker, aggPc, reports, largest, total_processed,
                   total_bytes_processed, printed, stderr, lost, fs, ops>>

\* lines 341-403: bounded(ChanCap), counters, spawn the aggregator thread
Spawn ==
    /\ mainPc = "spawn"
    /\ chan' = <<>>
    /\ txAlive' = TRUE
    /\ rxAlive' = TRUE
    /\ aggPc' = "Running"
    /\ mainPc' = "par"
    /\ UNCHANGED <<xorRun, args, rootExists, num_workers, files, gpu_ctx, taken, worker,
                   reports, largest, total_processed, total_bytes_processed,
                   printed, stderr, lost, fs, ops>>

\* ---- workers (rayon pool), lines 409-450 ------------------------------------
\* a worker of the pool takes a batch nobody has taken yet.  Idle workers hold
\* no state and are interchangeable, so the idle worker with the lowest
\* number stands for whichever thread rayon picks.  With several threads the
\* batches are stolen in any order; a pool of one thread runs them from left
\* to right (rayon's join runs the left half first, nobody steals the right).
TakeChunk(w) ==
    /\ mainPc = "par"
    /\ w <= num_workers
    /\ worker[w].pc = "idle"
    /\ \A v \in 1..(w - 1) : worker[v].pc # "idle"
    /\ \E c \in (1..NumChunks(Len(files))) \ taken :
          /\ num_workers = 1 => \A b \in 1..(c - 1) : b \in taken
          /\ taken' = taken \cup {c}
          /\ worker' = [worker EXCEPT ![w] =
                 [pc |-> "proc", chunk |-> c, pos |-> ChunkFirst(c),
                  rep |-> <<>>, err |-> FALSE]]
    /\ UNCHANGED <<mainVars, aggVars, envVars, chan, stderr, lost, fs, ops>>

\* Faulty variant of WorkerProcess: --warm-only is honoured, the file is
\* mapped and advised but not hashed, and its report has no fingerprint.
WorkerProcessWarmOnly(w) ==
    /\ worker[w].pc = "proc"
    /\ LET p == files[worker[w].pos] IN
       \E f \in [size : Sizes, fault : FaultKinds] :
          /\ Observable(f, args.min_bytes, args.gpu, gpu_ctx)
          /\ f.fault # "none" => Cardinality(Faulty) < MaxFaults
          /\ LET r == process_file(p, f, args.min_bytes, args.gpu, gpu_ctx) IN
             /\ fs' = [fs EXCEPT ![p] = f]
             /\ ops' = [ops EXCEPT ![p] =
                    @ \cup (IF args.warm_only THEN r.ops \ {"hash", "gpu"} ELSE r.ops)
                      \cup (IF r.ok THEN {} ELSE {"restat"})]
             /\ worker' = [worker EXCEPT
                    ![w].pc = "send",
                    ![w].rep = IF ~r.ok THEN <<err_report(p, f)>>
                               ELSE IF args.warm_only
                               THEN <<FileReport(p, f.size, "None", "None")>>
                               ELSE r.report,
                    ![w].err = ~r.ok]
    /\ UNCHANGED <<mainVars, aggVars, envVars, chan, taken, stderr, lost>>

\* lines 415-444: process_file on the next path of the batch; the Ok arm keeps
\* its report, the Err arm builds the minimal report
WorkerProcess(w) ==
    /\ worker[w].pc = "proc"
    /\ LET p == files[worker[w].pos] IN
       \E f \in [size : Sizes, fault : FaultKinds] :
          /\ Observable(f, args.min_bytes, args.gpu, gpu_ctx)
          /\ f.fault # "none" => Cardinality(Faulty) < MaxFaults
          /\ LET r == process_file(p, f, args.min_bytes, args.gpu, gpu_ctx) IN
             /\ fs' = [fs EXCEPT ![p] = f]
             /\ ops' = [ops EXCEPT ![p] =
                    @ \cup r.ops \cup (IF r.ok THEN {} ELSE {"restat"})]
             /\ worker' = [worker EXCEPT
                    ![w].pc = "send",
                    ![w].rep = IF r.ok THEN r.report ELSE <<err_report(p, f)>>,
                    ![w].err = ~r.ok]
    /\ UNCHANGED <<mainVars, aggVars, envVars, chan, taken, stderr, lost>>

\* Faulty variant of NextInChunk: the loop stops one path short of the end
\* of the batch.
NextInChunkShort(wk, n) ==
    IF wk.pos + 1 < ChunkLast(wk.chunk, n)
    THEN [wk EXCEPT !.pc = "proc", !.pos = wk.pos + 1, !.rep = <<>>, !.err = FALSE]
    ELSE IdleWorker

\* Faulty variant of NextInChunk: an Err leaves the loop (`break`), the rest
\* of the batch is not processed.
NextInChunkAbort(wk, n) ==
    IF wk.pos < ChunkLast(wk.chunk, n) /\ ~wk.err
    THEN [wk EXCEPT !.pc = "proc", !.pos = wk.pos + 1, !.rep = <<>>, !.err = FALSE]
    ELSE IdleWorker

\* `for p in chunk`: the worker after it has dealt with the path at wk.pos
NextInChunk(wk, n) ==
    IF wk.pos < ChunkLast(wk.chunk, n)
    THEN [wk EXCEPT !.pc = "proc", !.pos = wk.pos + 1, !.rep = <<>>, !.err = FALSE]
    ELSE IdleWorker

\* tx_arc.send(report): Ok once there is room, Err at once when the receiver
\* is gone (the result is ignored either way)
SendOn(q, rep, alive) == IF alive THEN Append(q, rep) ELSE q

\* Faulty variant of Warn: the warning is written in both arms.
WarnAlways(se, p, err) == [se EXCEPT ![p] = @ + 1]

\* line 446: eprintln!("[WARN] ...") is in the Err arm only
Warn(se, p, err) == IF err THEN [se EXCEPT ![p] = @ + 1] ELSE se

\* Faulty variant of WorkerSend: the channel is unbounded(), a send never
\* waits for room.
WorkerSendUnbounded(w) ==
    /\ worker[w].pc = "send"
    /\ chan' = SendOn(chan, worker[w].rep[1], rxAlive)
    /\ lost' = IF rxAlive THEN lost ELSE lost + 1
    /\ stderr' = Warn(stderr, worker[w].rep[1].path, worker[w].err)
    /\ worker' = [worker EXCEPT ![w] = NextInChunk(worker[w], Len(files))]
    /\ UNCHANGED <<mainVars, aggVars, envVars, taken, fs, ops>>

\* lines 433-447: send the report (blocking while the channel is full); the
\* Err arm then writes its warning
WorkerSend(w) ==
    /\ worker[w].pc = "send"
    /\ rxAlive => Len(chan) < ChanCap
    /\ chan' = SendOn(chan, worker[w].rep[1], rxAlive)
    /\ lost' = IF rxAlive THEN lost ELSE lost + 1
    /\ stderr' = Warn(stderr, worker[w].rep[1].path, worker[w].err)
    /\ worker' = [worker EXCEPT ![w] = NextInChunk(worker[w], Len(files))]
    /\ UNCHANGED <<mainVars, aggVars, envVars, taken, fs, ops>>

\* ---- main thread, after setup -------------------------------------------------
\* Faulty variant of ParDone: the batches are spawned and not waited for
\* (rayon::spawn in place of for_each), main goes on once all are taken.
ParDoneEarly ==
    /\ mainPc = "par"
    /\ taken = 1..NumChunks(Len(files))
    /\ mainPc' = "drop"
    /\ UNCHANGED <<num_workers, files, gpu_ctx, txAlive, aggVars, envVars, chan,
                   taken, worker, stderr, lost, fs, ops>>

\* line 450: for_each returns when every batch has been processed
ParDone ==
    /\ mainPc = "par"
    /\ taken = 1..NumChunks(Len(files))
    /\ \A w \in WorkerIds : worker[w].pc = "idle"
    /\ mainPc' = "drop"
    /\ UNCHANGED <<num_workers, files, gpu_ctx, txAlive, aggVars, envVars, chan,
                   taken, worker, stderr, lost, fs, ops>>

\* Faulty variant of DropSender: main goes on to join() with the sender still
\* alive.
DropSenderKept ==
    /\ mainPc = "drop"
    /\ mainPc' = "join"
    /\ UNCHANGED <<num_workers, files, gpu_ctx, txAlive, aggVars, envVars, chan,
                   taken, worker, stderr, lost, fs, ops>>

\* line 453: drop(tx_arc)
DropSender ==
    /\ mainPc = "drop"
    /\ txAlive' = FALSE
    /\ mainPc' = "join"
    /\ UNCHANGED <<num_workers, files, gpu_ctx, aggVars, envVars, chan, taken,
                   worker, stderr, lost, fs, ops>>

\* lines 456-463: agg_handle.join(), "All done", Ok(())
Join ==
    /\ mainPc = "join"
    /\ aggPc = "Done"
    /\ mainPc' = "done"
    /\ UNCHANGED <<num_workers, files, gpu_ctx, txAlive, aggVars, envVars, chan,
                   taken, worker, stderr, lost, fs, ops>>

\* ---- aggregator thread, lines 355-399 -------------------------------------------
\* sort_by_key(|r| Reverse(r.size)) is a stable sort: insert x behind every
\* element that is not smaller
\* Faulty variant of InsertDesc: the key is r.size without Reverse, the sort
\* is ascending.
RECURSIVE InsertAsc(_, _)
InsertAsc(x, s) ==
    IF s = <<>> THEN <<x>>
    ELSE IF Head(s).size <= x.size THEN <<Head(s)>> \o InsertAsc(x, Tail(s))
    ELSE <<x>> \o s

RECURSIVE InsertDesc(_, _)
InsertDesc(x, s) ==
    IF s = <<>> THEN <<x>>
    ELSE IF Head(s).size >= x.size THEN <<Head(s)>> \o InsertDesc(x, Tail(s))
    ELSE <<x>> \o s

RECURSIVE SortBySizeDesc(_)
SortBySizeDesc(s) ==
    IF s = <<>> THEN <<>>
    ELSE InsertDesc(s[Len(s)], SortBySizeDesc(SubSeq(s, 1, Len(s) - 1)))

\* Faulty variant of PushLargest: the list is truncated without being sorted
\* first, so the newest entry is the one that goes.
PushLargestNoSort(l, rep) ==
    LET l1 == Append(l, [size |-> rep.size, path |-> rep.path]) IN
    IF Len(l1) > LargestCap
    THEN SubSeq(l1, 1, LargestCap)
    ELSE l1

\* lines 368-373
PushLargest(l, rep) ==
    LET l1 == Append(l, [size |-> rep.size, path |-> rep.path]) IN
    IF Len(l1) > LargestCap
    THEN SubSeq(SortBySizeDesc(l1), 1, LargestCap)
    ELSE l1

RECURSIVE SumSizes(_)
SumSizes(s) == IF s = <<>> THEN 0 ELSE Head(s).size + SumSizes(Tail(s))

\* lines 383-397: the summary; sizes below 1024 print exactly ("{n}.00 B")
Summary(rs) ==
    [processed |-> Len(rs),
     total_bytes |-> SumSizes(rs),
     top |-> [i \in 1..Min(TopN, Len(rs)) |->
                 [size |-> rs[i].size, path |-> rs[i].path]]]

\* Faulty variant of AddU64: the addition saturates at u64::MAX.
AddU64Saturating(a, b) == Min(a + b, 2 ^ U64Bits - 1)

\* AtomicU64::fetch_add: the addition wraps around, lines 360-361
AddU64(a, b) == (a + b) % (2 ^ U64Bits)

\* lines 358-375: one turn of `while let Ok(rep) = rx.recv()`
AggRecv ==
    /\ aggPc = "Running"
    /\ chan # <<>>
    /\ LET rep == Head(chan) IN
       /\ chan' = Tail(chan)
       /\ total_processed' = AddU64(total_processed, 1)
       /\ total_bytes_processed' = AddU64(total_bytes_processed, rep.size)
       /\ largest' = PushLargest(largest, rep)
       /\ reports' = Append(reports, rep)
    /\ UNCHANGED <<mainVars, envVars, aggPc, printed, rxAlive, taken, worker,
                   stderr, lost, fs, ops>>

\* Faulty variant of AggDisconnected: try_recv() in place of recv(), the loop
\* ends as soon as the channel is found empty.
AggDisconnectedTry ==
    /\ aggPc = "Running"
    /\ chan = <<>>
    /\ aggPc' = "DrainingComplete"
    /\ UNCHANGED <<mainVars, envVars, reports, largest, total_processed,
                   total_bytes_processed, printed, rxAlive, chan, taken, worker,
                   stderr, lost, fs, ops>>

\* line 358: recv() returns Err: the channel is empty and every sender is gone
AggDisconnected ==
    /\ aggPc = "Running"
    /\ chan = <<>>
    /\ ~txAlive
    /\ aggPc' = "DrainingComplete"
    /\ UNCHANGED <<mainVars, envVars, reports, largest, total_processed,
                   total_bytes_processed, printed, rxAlive, chan, taken, worker,
                   stderr, lost, fs, ops>>

\* lines 379-381
AggSort ==
    /\ aggPc = "DrainingComplete"
    /\ reports' = SortBySizeDesc(reports)
    /\ aggPc' = "Finalizing"
    /\ UNCHANGED <<mainVars, envVars, largest, total_processed,
                   total_bytes_processed, printed, rxAlive, chan, taken, worker,
                   stderr, lost, fs, ops>>

\* lines 383-399: print the summary; the thread ends and drops rx
AggPrint ==
    /\ aggPc = "Finalizing"
    /\ printed' = <<Summary(reports)>>
    /\ rxAlive' = FALSE
    /\ aggPc' = "Done"
    /\ UNCHANGED <<mainVars, envVars, reports, largest, total_processed,
                   total_bytes_processed, chan, taken, worker, stderr, lost, fs,
                   ops>>

\* ---- specification -------------------------------------------------------------
Main == CheckRoot \/ BuildPool \/ Scan \/ GpuInit \/ Spawn \/ ParDone
           \/ DropSender \/ Join
Worker(w) == TakeChunk(w) \/ WorkerProcess(w) \/ WorkerSend(w)
Aggregator == AggRecv \/ AggDisconnected \/ AggSort \/ AggPrint

Next == Main \/ Aggregator \/ (\E w \in WorkerIds : Worker(w))

Spec == Init /\ [][Next]_vars

\* the operating system schedules every thread that can run
SpecLive ==
    /\ Init
    /\ [][Next]_vars
    /\ WF_vars(Main)
    /\ WF_vars(Aggregator)
    /\ \A w \in WorkerIds : WF_vars(Worker(w))

\* ---- what the claims speak about ---------------------------------------------
Discovered == {files[i] : i \in 1..Len(files)}

SeqRange(s) == {s[i] : i \in 1..Len(s)}

\* every report there is: held by a worker, in the channel, or collected
InFlight == UNION {SeqRange(worker[w].rep) : w \in WorkerIds} \cup SeqRange(chan)
AllReports == InFlight \cup SeqRange(reports)

ReportsOf(p) == {i \in 1..Len(reports) : reports[i].path = p}

\* the paths whose processing fails: stat fails, or the file is big enough to
\* be opened and open or map fails
Failed(p) ==
    \/ fs[p].fault = "stat"
    \/ fs[p].fault \in {"open", "map"} /\ fs[p].size >= args.min_bytes

FailedSet == {p \in Discovered : Failed(p)}

AggFinal == aggPc \in {"DrainingComplete", "Finalizing", "Done"}

\* ---- C1 ----------------------------------------------------------------------
\* C1: when the aggregator has left its receive loop, its collection holds
\* exactly one report for each discovered path and nothing else: as many
\* reports as paths, each path once, each received once (the processed counter
\* agrees), none left in the channel or with a worker, none lost by a send.
C1_OneReportPerPath ==
    AggFinal =>
        /\ Len(reports) = Len(files)
        /\ \A p \in Discovered : Cardinality(ReportsOf(p)) = 1
        /\ \A i \in 1..Len(reports) : reports[i].path \in Discovered
        /\ total_processed = Len(files)
        /\ InFlight = {}
        /\ lost = 0

\* a full run with two workers in which one file was processed, one was
\* skipped as too small and one failed
C1_Witness ==
    /\ aggPc = "Done"
    /\ num_workers = 2
    /\ Len(reports) = 3
    /\ \E p, q, r \in Discovered :
          /\ "hash" \in ops[p]
          /\ ops[q] = {"stat"} /\ fs[q].fault = "none"
          /\ "restat" \in ops[r]

\* ---- C2 ----------------------------------------------------------------------
\* the report a path gets, stated from what the file system answers for that
\* path alone (and the options of the run): nothing of another path enters
GpuOn == args.gpu /\ gpu_ctx = "Some"

OwnReport(p) ==
    IF Failed(p)
    THEN FileReport(p, IF fs[p].fault = "stat" THEN 0 ELSE fs[p].size,
                    "None", "None")
    ELSE IF fs[p].size < args.min_bytes
    THEN FileReport(p, fs[p].size, "None", "None")
    ELSE FileReport(p, fs[p].size, "Some",
                    IF GpuOn /\ fs[p].fault # "gpu" THEN "Some" ELSE "None")

\* C2: fault isolation.  Whatever happens to the other paths, every path ends
\* with the one report its own file determines: a path whose processing fails
\* gets the fallback report (its path, the size or 0 when stat fails, no
\* fingerprint, no GPU value), and every other path gets the report it gets in
\* a run without that failure (same size, fingerprint and GPU value presence).
C2_FaultIsolation ==
    /\ \A r \in AllReports : r = OwnReport(r.path)
    /\ AggFinal =>
          \A p \in Discovered : \E i \in 1..Len(reports) : reports[i] = OwnReport(p)

\* one of three files failed at open or map, and another one carries a
\* fingerprint
C2_Witness ==
    /\ aggPc = "Done"
    /\ Len(files) = 3
    /\ \E p, q \in Discovered :
          /\ Failed(p) /\ fs[p].fault # "stat"
          /\ \E i \in 1..Len(reports) :
                reports[i].path = q /\ reports[i].blake3_hex = "Some"

\* ---- C3 ----------------------------------------------------------------------
\* C3: a file whose size at stat time is below the threshold gets an Ok
\* report with its path and size, no fingerprint and no GPU value, and the
\* only call made for it is the stat: no open, map, advise, hash or GPU call
\* (and no Err arm).
C3_SmallFilesSkipped ==
    \A p \in Paths :
        (fs[p].fault \notin {"unseen", "stat"} /\ fs[p].size < args.min_bytes) =>
            /\ ops[p] = {"stat"}
            /\ \A r \in AllReports :
                  r.path = p => r = FileReport(p, fs[p].size, "None", "None")
            /\ \A w \in WorkerIds :
                  (worker[w].rep # <<>> /\ worker[w].rep[1].path = p) => ~worker[w].err
            /\ stderr[p] = 0

\* a file below the threshold has been processed and its report collected
C3_Witness ==
    \E i \in 1..Len(reports) :
        /\ fs[reports[i].path].fault = "none"
        /\ reports[i].size < args.min_bytes

TopList == IF printed = <<>> THEN <<>> ELSE printed[1].top

TopShape ==
    /\ Len(TopList) = Min(TopN, Len(reports))
    /\ \A i \in 1..Len(TopList) :
          /\ TopList[i].path \in Discovered
          /\ \E j \in 1..Len(reports) :
                reports[j].path = TopList[i].path /\ reports[j].size = TopList[i].size

\* C5 as stated: the printed top list has min(TopN, number of reports)
\* entries, each a discovered file, and is sorted STRICTLY descending by size.
C5_StrictlyDescending ==
    aggPc = "Done" =>
        /\ TopShape
        /\ \A i \in 1..(Len(TopList) - 1) : TopList[i].size > TopList[i + 1].size

\* C5 as amended: the printed top list has min(TopN, number of reports)
\* entries, each a discovered file with its size, and is sorted descending by
\* size, not strictly: every entry is at least as large as the next.
C5_Descending ==
    aggPc = "Done" =>
        /\ TopShape
        /\ \A i \in 1..(Len(TopList) - 1) : TopList[i].size >= TopList[i + 1].size

\* three files, more than the list holds; the last path discovered is the
\* largest and is printed first
C5_Witness ==
    /\ aggPc = "Done"
    /\ Len(reports) = 3
    /\ Len(TopList) = TopN
    /\ TopList[1].size > TopList[2].size
    /\ TopList[1].path = 3

\* ---- C6 ----------------------------------------------------------------------
SetupPassed == mainPc = "scan"

Finished ==
    /\ mainPc = "done"
    /\ aggPc = "Done"
    /\ \A w \in WorkerIds : worker[w].pc = "idle"
    /\ taken = 1..NumChunks(Len(files))
    /\ ~txAlive /\ chan = <<>>
    /\ printed # <<>>
    /\ Len(files) = 0 => printed[1].processed = 0

C8_MissingRootIsFatal ==
    ~rootExists =>
        /\ mainPc \in {"start", "fatal"}
        /\ num_workers = 0
        /\ files = <<>>
        /\ gpu_ctx = "Unset"
        /\ ~txAlive /\ ~rxAlive /\ chan = <<>>
        /\ aggPc = "NotStarted"
        /\ taken = {}
        /\ \A w \in WorkerIds : worker[w] = IdleWorker
        /\ \A p \in Paths : ops[p] = {} /\ fs[p] = Unseen /\ stderr[p] = 0
        /\ reports = <<>> /\ largest = <<>>
        /\ total_processed = 0 /\ total_bytes_processed = 0
        /\ printed = <<>>

\* the root is missing and main has bailed out
C8_Witness == ~rootExists /\ mainPc = "fatal"

\* ---- C9 ----------------------------------------------------------------------
\* the reports in discovery order (one per path once the run is complete)
ReportAt(i) == reports[CHOOSE j \in 1..Len(reports) : reports[j].path = files[i]]

InDiscoveryOrder == [i \in 1..Len(files) |-> ReportAt(i)]

\* the list the run prints when the reports arrive in discovery order, as
\* they do with a single worker
CanonicalTop == Summary(SortBySizeDesc(InDiscoveryOrder)).top

\* C9: the printed order is deterministic: for a fixed set of files (paths and
\* sizes) every interleaving prints the same sequence of paths, which
\* therefore is the one the in-order arrival gives.
C9_DeterministicOrder ==
    (aggPc = "Done" /\ Len(reports) = Len(files)) =>
        [i \in 1..Len(TopList) |-> TopList[i].path]
            = [i \in 1..Len(CanonicalTop) |-> CanonicalTop[i].path]

\* ---- one call of xor64_for_file as a state machine ----------------------------
pipeVars == <<args, rootExists, mainPc, num_workers, files, gpu_ctx, chan,
              txAlive, rxAlive, taken, worker, aggPc, reports, largest,
              total_processed, total_bytes_processed, printed, stderr, lost,
              fs, ops>>

\* a GpuContext whose max_work_items is anywhere in the clamp range, called on
\* any buffer; the pipeline around it does not move
InitGpu ==
    /\ args = [min_bytes |-> 0, gpu |-> TRUE]
    /\ rootExists = TRUE
    /\ mainPc = "par"
    /\ num_workers = 1
    /\ files = <<1>>
    /\ gpu_ctx = "Some"
    /\ chan = <<>>
    /\ txAlive = TRUE
    /\ rxAlive = TRUE
    /\ taken = {}
    /\ worker = [w \in WorkerIds |-> IdleWorker]
    /\ aggPc = "Running"
    /\ reports = <<>>
    /\ largest = <<>>
    /\ total_processed = 0
    /\ total_bytes_processed = 0
    /\ printed = <<>>
    /\ stderr = [p \in Paths |-> 0]
    /\ lost = 0
    /\ fs = [p \in Paths |-> Unseen]
    /\ ops = [p \in Paths |-> {}]
    /\ \E b \in Buffers, m \in ClampLo..ClampHi :
          xorRun = [XorIdle EXCEPT !.pc = "start", !.bytes = b, !.max_work_items = m]

\* lines 69-102: pack the bytes into words, create the buffers
GpuPack ==
    /\ xorRun.pc = "start"
    /\ LET u64buf == PackWords(xorRun.bytes) IN
       xorRun' = IF Len(u64buf) = 0
                 THEN [xorRun EXCEPT !.pc = "done", !.out = [tag |-> "Err", value |-> {}]]
                 ELSE [xorRun EXCEPT !.pc = "packed", !.u64buf = u64buf]
    /\ UNCHANGED pipeVars

\* lines 104-124: run the kernel and read the partial results back
GpuKernel ==
    /\ xorRun.pc = "packed"
    /\ LET wg == WorkItems(xorRun.max_work_items, Len(xorRun.u64buf))
           partials == RunKernel(xorRun.u64buf, wg)
       IN  xorRun' = IF \E gid \in 0..(wg - 1) : partials[gid] = <<>>
                     THEN [xorRun EXCEPT !.pc = "hung"]
                     ELSE [xorRun EXCEPT !.pc = "ran", !.partials = partials]
    /\ UNCHANGED pipeVars

\* lines 125-129: reduce the partials on the host
GpuReduce ==
    /\ xorRun.pc = "ran"
    /\ LET wg == WorkItems(xorRun.max_work_items, Len(xorRun.u64buf)) IN
       xorRun' = [xorRun EXCEPT !.pc = "done",
                     !.out = [tag |-> "Ok", value |-> HostReduce(xorRun.partials, wg)]]
    /\ UNCHANGED pipeVars

NextGpu == GpuPack \/ GpuKernel \/ GpuReduce

SpecGpu == InitGpu /\ [][NextGpu]_vars

\* ---- C10 ---------------------------------------------------------------------
\* C10: the checksum does not depend on the lane count: whenever the call has
\* returned a value, the call on the same bytes with any other lane count of
\* the clamp range that returns a value returns the same value.
C10_LaneInvariance ==
    (xorRun.pc = "done" /\ xorRun.out.tag = "Ok") =>
        \A m \in ClampLo..ClampHi :
            LET other == xor64_for_file(xorRun.bytes, m) IN
            other.tag = "Ok" => other.value = xorRun.out.value

\* ---- C11 ---------------------------------------------------------------------
\* C11: --min-bytes limits processing to files LARGER than min_bytes (the doc
\* comment of Args::min_bytes): a file is opened, mapped and fingerprinted
\* only if its size is strictly greater than min_bytes, and a file whose size
\* equals min_bytes gets a report without fingerprint.
C11_OnlyLargerThanMinBytes ==
    /\ \A p \in Paths :
          (ops[p] \cap {"open", "map", "hash"} # {}) => fs[p].size > args.min_bytes
    /\ \A r \in AllReports :
          (fs[r.path].fault \in {"none", "gpu"} /\ r.size = args.min_bytes)
              => r.blake3_hex = "None"

\* ---- C12 ---------------------------------------------------------------------
\* the aggregator's states in their order
AggRank(pc) ==
    CASE pc = "NotStarted" -> 0
      [] pc = "Running" -> 1
      [] pc = "DrainingComplete" -> 2
      [] pc = "Finalizing" -> 3
      [] pc = "Done" -> 4

AllBatchesDone ==
    /\ taken = 1..NumChunks(Len(files))
    /\ \A w \in WorkerIds : worker[w].pc = "idle"
    /\ \A p \in Discovered : ops[p] # {}

\* once the aggregator has left its loop the channel is closed and empty and
\* every worker has finished every batch
FinalOnlyAfterDrain ==
    /\ AggFinal => (~txAlive /\ chan = <<>> /\ AllBatchesDone)
    /\ printed # <<>> => (aggPc = "Done" /\ chan = <<>> /\ AllBatchesDone)

\* one step of the aggregator: one state forward at most, and nothing is sent
\* or received once finalization has started
AggForwardStep ==
    /\ AggRank(aggPc') \in {AggRank(aggPc), AggRank(aggPc) + 1}
    /\ AggFinal =>
          /\ chan' = chan
          /\ worker' = worker
          /\ lost' = lost
          /\ Len(reports') = Len(reports)
          /\ total_processed' = total_processed

\* C12: the aggregator moves only forward through Running, Draining-Complete,
\* Finalizing, Done; the sort and the summary start only after the channel is
\* closed and empty, which is only after every worker has finished every
\* batch; no report is sent or received after finalization has started, and
\* the summary is never printed while a discovered file is unprocessed or a
\* report is still in the channel.
C12_AggregatorForwardOnly == [][AggForwardStep]_vars /\ []FinalOnlyAfterDrain

\* the aggregator is finalizing after two workers delivered three reports
C12_Witness ==
    /\ aggPc = "Finalizing"
    /\ num_workers = 2
    /\ Len(reports) = 3

\* ---- C13 ---------------------------------------------------------------------
\* a worker inside a batch that cannot take its next step
WorkerBlocked(w) ==
    \/ worker[w].pc = "proc" /\ ~ENABLED WorkerProcess(w)
    \/ worker[w].pc = "send" /\ ~ENABLED WorkerSend(w)

\* the aggregator thread is running and cannot take its next step
AggBlocked ==
    \/ aggPc = "Running" /\ ~ENABLED (AggRecv \/ AggDisconnected)
    \/ aggPc = "DrainingComplete" /\ ~ENABLED AggSort
    \/ aggPc = "Finalizing" /\ ~ENABLED AggPrint

\* the queue is within its capacity, and whoever is blocked is blocked on it
BlockedOnlyOnChannel ==
    /\ Len(chan) <= ChanCap
    /\ \A w \in WorkerIds :
          WorkerBlocked(w) =>
              (worker[w].pc = "send" /\ rxAlive /\ Len(chan) = ChanCap)
    /\ AggBlocked => (aggPc = "Running" /\ chan = <<>> /\ txAlive)

FeedSizes == {0, 1, 2 ^ (U64Bits - 1), 2 ^ U64Bits - 1}

\* the parallel loop is running over up to MaxFeed files, the aggregator is
\* in its loop and nothing has been sent yet
InitAgg ==
    /\ args = [min_bytes |-> 0, gpu |-> FALSE]
    /\ rootExists = TRUE
    /\ mainPc = "par"
    /\ num_workers = 1
    /\ \E n \in 0..MaxFeed : files = [i \in 1..n |-> i]
    /\ gpu_ctx = "None"
    /\ chan = <<>>
    /\ txAlive = TRUE
    /\ rxAlive = TRUE
    /\ taken = {}
    /\ worker = [w \in WorkerIds |-> IdleWorker]
    /\ aggPc = "Running"
    /\ reports = <<>>
    /\ largest = <<>>
    /\ total_processed = 0
    /\ total_bytes_processed = 0
    /\ printed = <<>>
    /\ stderr = [p \in Paths |-> 0]
    /\ lost = 0
    /\ fs = [p \in Paths |-> Unseen]
    /\ ops = [p \in Paths |-> {}]
    /\ xorRun = XorIdle

\* lines 433-445 seen from the aggregator: the workers send the report of
\* the next file, whose size is any u64, once there is room in the channel
Feed ==
    /\ mainPc = "par"
    /\ Len(chan) < ChanCap
    /\ Len(chan) + Len(reports) < Len(files)
    /\ \E s \in FeedSizes :
          chan' = Append(chan, FileReport(files[Len(chan) + Len(reports) + 1],
                                          s, "None", "None"))
    /\ UNCHANGED <<mainVars, aggVars, envVars, taken, worker, stderr, lost, fs, ops>>

\* line 450: for_each returns when the report of every file has been sent
FeedEnd ==
    /\ mainPc = "par"
    /\ Len(chan) + Len(reports) = Len(files)
    /\ mainPc' = "drop"
    /\ UNCHANGED <<num_workers, files, gpu_ctx, txAlive, aggVars, envVars, chan,
                   taken, worker, stderr, lost, fs, ops>>

NextAgg == Feed \/ FeedEnd \/ DropSender \/ Join \/ Aggregator

SpecAgg == InitAgg /\ [][NextAgg]_vars

\* ---- C14 ---------------------------------------------------------------------
\* the counters against the collection, as u64 values
CountersTrack ==
    aggPc # "NotStarted" =>
        /\ total_processed = Len(reports) % (2 ^ U64Bits)
        /\ total_bytes_processed = SumSizes(reports) % (2 ^ U64Bits)

CountersAtDone ==
    aggPc = "Done" =>
        /\ total_processed = Len(files)
        /\ printed # <<>>
        /\ printed[1].processed = total_processed

\* a counter changes only in a turn of the aggregator's receive loop
OnlyAggregatorWrites ==
    (total_processed' # total_processed
        \/ total_bytes_processed' # total_bytes_processed)
    => (aggPc = "Running" /\ chan # <<>> /\ chan' = Tail(chan)
        /\ reports' = Append(reports, Head(chan)))

\* C14 as stated: the counters track the collection (files-processed is the
\* number of reports, bytes-processed the sum of their sizes modulo 2^64), are
\* written by the aggregator only, end at the number of discovered paths and
\* the printed 'Processed files' value, and NEVER decrease.
C14_CountersNeverDecrease ==
    /\ []CountersTrack
    /\ []CountersAtDone
    /\ [][OnlyAggregatorWrites]_vars
    /\ [][total_processed' >= total_processed
          /\ total_bytes_processed' >= total_bytes_processed]_vars

\* C14 as amended: as stated, except that only files-processed never
\* decreases; bytes-processed never decreases while the sum of the sizes
\* received stays below 2^64, and wraps around when the sum passes 2^64.
C14_CountersTrack ==
    /\ []CountersTrack
    /\ []CountersAtDone
    /\ [][OnlyAggregatorWrites]_vars
    /\ [][total_processed' >= total_processed
          /\ (total_bytes_processed' >= total_bytes_processed
              \/ (chan # <<>>
                  /\ total_bytes_processed + Head(chan).size >= 2 ^ U64Bits))]_vars

\* the aggregator is done with four reports whose sizes add up to more than
\* the counter holds; the counter has wrapped around
C14_Witness ==
    /\ aggPc = "Done"
    /\ Len(reports) = 4
    /\ SumSizes(reports) >= 2 ^ U64Bits
    /\ total_bytes_processed = SumSizes(reports) % (2 ^ U64Bits)
    /\ total_processed = 4

\* ---- C15 ---------------------------------------------------------------------
\* the GPU is not there for the path of report r: the context could not be
\* constructed although --gpu was given, or the call for this file failed
GpuDegraded(r) ==
    \/ fs[r.path].fault = "gpu"
    \/ /\ args.gpu /\ gpu_ctx = "None"
       /\ fs[r.path].fault = "none" /\ fs[r.path].size >= args.min_bytes

\* C15: GPU graceful degradation.  A report carries a GPU checksum only if
\* --gpu was given, the GpuContext was constructed, the file is at or above
\* the threshold and the GPU call for the file succeeded.  A failed
\* construction or a failed call never makes the run or the file fail: the
\* report is the Ok one with the file's size and fingerprint, only the GPU
\* value is absent, the Err arm is not taken and no warning is written.
C15_GpuDegradation ==
    /\ (args.gpu /\ gpu_ctx = "None") => mainPc # "fatal"
    /\ \A r \in AllReports :
          /\ r.xor64_gpu = "Some" =>
                /\ args.gpu /\ gpu_ctx = "Some"
                /\ r.size >= args.min_bytes
                /\ fs[r.path].fault = "none"
                /\ "gpu" \in ops[r.path]
          /\ GpuDegraded(r) =>
                /\ r = FileReport(r.path, fs[r.path].size, "Some", "None")
                /\ "restat" \notin ops[r.path]
                /\ stderr[r.path] = 0
                /\ \A w \in WorkerIds : worker[w].rep = <<r>> => ~worker[w].err

\* the run is complete; the GPU call failed for one file, whose report has a
\* fingerprint and no GPU value, and succeeded for another one
C15_Witness ==
    /\ mainPc = "done"
    /\ \E i, j \in 1..Len(reports) :
          /\ fs[reports[i].path].fault = "gpu"
          /\ reports[i].blake3_hex = "Some" /\ reports[i].xor64_gpu = "None"
          /\ reports[j].xor64_gpu = "Some"

\* ---- C16 ---------------------------------------------------------------------
\* the XOR of all little-endian 64-bit words of the bytes, the last one padded
\* with zeros: byte k (from 1) lies in bits 8((k-1) mod 8) .. +7 of its word
RECURSIVE XorOfWords(_, _)
XorOfWords(bytes, k) ==
    IF k = 0 THEN {}
    ELSE Xor(XorOfWords(bytes, k - 1),
             {WordBytes * ((k - 1) % WordBytes) + j : j \in BitsOfByte(bytes[k])})

\* the indices work-item gid reads in its loop (lines 33-35)
RECURSIVE LaneIndices(_, _, _, _)
LaneIndices(n, gsz, i, visited) ==
    IF ~(i < n) \/ i \in visited THEN visited
    ELSE LaneIndices(n, gsz, AsU32(i + gsz), visited \cup {i})

\* every word of the buffer is read by exactly one work-item
EachWordInOneLane(u64buf, wg) ==
    \A i \in 0..(Len(u64buf) - 1) :
        Cardinality({gid \in 0..(wg - 1) :
            i \in LaneIndices(AsU32(Len(u64buf)), wg, AsU32(gid), {})}) = 1

\* C16: for every byte buffer of any length, the empty buffer and lengths that
\* are not a multiple of 8 included, the call returns the XOR of all
\* little-endian 64-bit words of the buffer after zero-padding the last
\* partial word, and every word contributes to exactly one lane's partial
\* accumulator.
C16_XorOfAllWords ==
    /\ xorRun.pc # "hung"
    /\ xorRun.pc \in {"packed", "ran"} =>
          EachWordInOneLane(xorRun.u64buf,
                            WorkItems(xorRun.max_work_items, Len(xorRun.u64buf)))
    /\ xorRun.pc = "done" =>
          /\ xorRun.out.tag = "Ok"
          /\ xorRun.out.value = XorOfWords(xorRun.bytes, Len(xorRun.bytes))

\* ---- C17 ---------------------------------------------------------------------
Batches == 1..NumChunks(Len(files))

InBatch(c, i) == ChunkFirst(c) <= i /\ i <= ChunkLast(c, Len(files))

BatchLen(c) == ChunkLast(c, Len(files)) - ChunkFirst(c) + 1

\* contiguous batches of exactly ChunkSize paths, the last one possibly
\* shorter, none for the empty list, every position in exactly one batch
BatchesPartition ==
    /\ Len(files) = 0 => Batches = {}
    /\ \A c \in Batches :
          \/ BatchLen(c) = ChunkSize
          \/ c = NumChunks(Len(files)) /\ 1 <= BatchLen(c) /\ BatchLen(c) < ChunkSize
    /\ \A i \in 1..Len(files) : Cardinality({c \in Batches : InBatch(c, i)}) = 1

Processed(i) == ops[files[i]] # {}

Holders(c) == {w \in WorkerIds : worker[w].pc # "idle" /\ worker[w].chunk = c}

\* a batch is held by one worker at most, which has processed the paths of
\* the batch before its position and none behind it; the paths of a batch not
\* taken yet are unprocessed, those of a batch that was taken and is no longer
\* held are all processed
BatchesOwned ==
    /\ taken \subseteq Batches
    /\ \A w \in WorkerIds :
          worker[w].pc # "idle" =>
              worker[w].chunk \in taken /\ InBatch(worker[w].chunk, worker[w].pos)
    /\ \A c \in Batches : Cardinality(Holders(c)) <= 1
    /\ \A c \in Batches : \A i \in 1..Len(files) :
          InBatch(c, i) =>
              IF c \notin taken THEN ~Processed(i)
              ELSE IF Holders(c) = {} THEN Processed(i)
              ELSE \A w \in Holders(c) :
                      Processed(i) <=>
                          (i < worker[w].pos
                              \/ (i = worker[w].pos /\ worker[w].pc = "send"))

\* one step: a processed path is never processed again; a worker takes a
\* batch nobody took, starts at its first path, goes through it path by path
\* and leaves it after its last path
BatchStep ==
    /\ \A p \in Paths : ops[p] # {} => ops'[p] = ops[p]
    /\ \A w \in WorkerIds :
          /\ (worker[w].pc # "idle" /\ worker'[w].pc # "idle") =>
                /\ worker'[w].chunk = worker[w].chunk
                /\ worker'[w].pos \in {worker[w].pos, worker[w].pos + 1}
          /\ (worker[w].pc = "idle" /\ worker'[w].pc # "idle") =>
                /\ worker'[w].chunk \in Batches \ taken
                /\ worker'[w].pos = ChunkFirst(worker'[w].chunk)
          /\ (worker[w].pc # "idle" /\ worker'[w].pc = "idle") =>
                /\ worker[w].pc = "send"
                /\ worker[w].pos = ChunkLast(worker[w].chunk, Len(files))

\* C17: the sorted path list is cut into contiguous batches of exactly 128
\* paths (the last may be shorter, none for the empty list); every path is in
\* exactly one batch, each batch is processed from its first to its last path
\* by a single worker, and so every path is processed exactly once by exactly
\* one worker, whatever the number of workers and the order of the batches.
C17_BatchesOnceByOneWorker ==
    /\ [](BatchesPartition /\ BatchesOwned)
    /\ [][BatchStep]_vars
    /\ [](mainPc \in {"drop", "join", "done"} =>
            (taken = Batches /\ \A i \in 1..Len(files) : Processed(i)))

\* three files in two batches, each held by its own worker; the first worker
\* is at the second path of its batch
C17_Witness ==
    /\ Len(files) = 3
    /\ Holders(1) # {} /\ Holders(2) # {} /\ Holders(1) # Holders(2)
    /\ \E w \in Holders(1) : worker[w].pos = 2

\* ---- C18 ---------------------------------------------------------------------
\* how many entries of the sequence have size v
CountSize(seq, v) == Cardinality({i \in 1..Len(seq) : seq[i].size = v})

SizesOf(seq) == {seq[i].size : i \in 1..Len(seq)}

\* the sizes in `largest` are the min(LargestCap, n) largest sizes of the n
\* reports received, as a multiset: as many entries as that, each size no more
\* often than it was received, and no size left out that is larger than a
\* size kept
LargestIsTopK ==
    /\ Len(largest) <= LargestCap
    /\ Len(largest) = Min(LargestCap, Len(reports))
    /\ \A i \in 1..Len(largest) :
          \E j \in 1..Len(reports) :
              reports[j].path = largest[i].path /\ reports[j].size = largest[i].size
    /\ \A v \in SizesOf(reports) :
          /\ CountSize(largest, v) <= CountSize(reports, v)
          /\ CountSize(largest, v) < CountSize(reports, v) =>
                \A i \in 1..Len(largest) : largest[i].size >= v

\* the (size, path) pairs that are candidates in this step: the list and the
\* report being handled
Candidates == SeqRange(largest) \cup {[size |-> Head(chan).size, path |-> Head(chan).path]}

\* one turn of the loop removes a candidate only when LargestCap entries that
\* are not smaller remain
RemovedOnlyBelowTopK ==
    (aggPc = "Running" /\ chan # <<>> /\ reports' = Append(reports, Head(chan))) =>
        \A e \in Candidates \ SeqRange(largest') :
            Cardinality({i \in 1..Len(largest') : largest'[i].size >= e.size})
                >= LargestCap

\* C18: after the aggregator has handled each report, the candidate list
\* holds at most 256 (size, path) entries and the multiset of its sizes is
\* that of the min(256, n) largest sizes among the n reports received so far,
\* for every arrival order; an entry is removed from the list only when at
\* least 256 entries with sizes not smaller than it remain.
C18_LargestIsTopK == []LargestIsTopK /\ [][RemovedOnlyBelowTopK]_vars

\* four reports were handled, more than the list holds; the largest one
\* arrived last and is in the list, the first one was dropped from it
C18_Witness ==
    /\ Len(reports) = 4
    /\ aggPc = "Running"
    /\ Len(largest) = LargestCap
    /\ \A j \in 1..3 : reports[j].size < reports[4].size
    /\ \E i \in 1..Len(largest) : largest[i].path = reports[4].path
    /\ \A i \in 1..Len(largest) : largest[i].path # reports[1].path

\* ---- C19 ---------------------------------------------------------------------
\* the runs with --warm-only given: Args.warm_only is bound at line 406 and
\* read nowhere
InitWarm ==
    /\ args \in [min_bytes : {0, Threshold}, gpu : BOOLEAN, warm_only : {TRUE}]
    /\ rootExists \in BOOLEAN
    /\ mainPc = "start"
    /\ num_workers = 0
    /\ files = <<>>
    /\ gpu_ctx = "Unset"
    /\ chan = <<>>
    /\ txAlive = FALSE
    /\ rxAlive = FALSE
    /\ taken = {}
    /\ worker = [w \in WorkerIds |-> IdleWorker]
    /\ aggPc = "NotStarted"
    /\ reports = <<>>
    /\ largest = <<>>
    /\ total_processed = 0
    /\ total_bytes_processed = 0
    /\ printed = <<>>
    /\ stderr = [p \in Paths |-> 0]
    /\ lost = 0
    /\ fs = [p \in Paths |-> Unseen]
    /\ ops = [p \in Paths |-> {}]
    /\ xorRun = XorIdle

SpecWarm == InitWarm /\ [][Next]_vars

\* the options of the run without the warm-only flag
OtherOptions == [min_bytes |-> args.min_bytes, gpu |-> args.gpu]

\* what the run without --warm-only gives for path p on the same file: the
\* report, the calls made and the warnings written
PlainResult(p) ==
    LET r == process_file(p, fs[p], OtherOptions.min_bytes, OtherOptions.gpu, gpu_ctx)
    IN  [report |-> IF r.ok THEN r.report[1] ELSE err_report(p, fs[p]),
         ops |-> r.ops \cup (IF r.ok THEN {} ELSE {"restat"}),
         warnings |-> IF r.ok THEN 0 ELSE 1]

C20_SendNeverFails ==
    /\ lost = 0
    /\ \A w \in WorkerIds :
          worker[w].pc # "idle" => (txAlive /\ rxAlive /\ aggPc = "Running")
    /\ (aggPc # "NotStarted" /\ ~txAlive) =>
          /\ mainPc \in {"join", "done"}
          /\ taken = 1..NumChunks(Len(files))
          /\ \A w \in WorkerIds : worker[w].pc = "idle"
    /\ (aggPc # "NotStarted" /\ ~rxAlive) => (aggPc = "Done" /\ ~txAlive)
    /\ aggPc = "Running" => rxAlive

\* the sender is dropped and the aggregator still receives the reports that
\* two workers sent before
C20_Witness ==
    /\ ~txAlive /\ rxAlive
    /\ aggPc = "Running"
    /\ chan # <<>>
    /\ num_workers = 2
    /\ Len(reports) + Len(chan) = 3
    /\ lost = 0

====
